---- MODULE Spec2Model ----
(***************************************************************************)
(* pytubefm / pytuber command layer: the last.fm commands (setup, add,     *)
(* remove, sync) and the youtube commands (setup, push playlists, push     *)
(* tracks) over the local registry (config, playlists, tracks, history)    *)
(* and the two remote services.                                            *)
(*                                                                         *)
(* A command runs from pc = "idle" to pc = "idle"; a command that makes    *)
(* remote calls takes one step per remote call, so that the order of the   *)
(* calls and the failure of any one of them are visible.                   *)
(***************************************************************************)
EXTENDS Integers, Sequences, FiniteSets, TLC

\* ------------------------------------------------------------------ bounds
MaxPlaylists == 2   \* playlist records in a loaded registry
MaxTracks == 3      \* track records in a loaded registry
MaxItems == 2       \* items on the remote platform when a run starts
MaxClock == 3       \* commands run in one behaviour (the clock's last tick)
MaxFailures == 2    \* failing remote calls in one behaviour

\* Python's None, for the integer-valued optional fields.
NULL == 0

\* option_limit: click.IntRange(50, 1000)
MinLimit == 50
MaxLimit == 1000

\* a dict with no keys
EmptyDict == [x \in {} |-> NULL]

\* dict.update
DictUpdate(d, e) ==
    [x \in DOMAIN d \cup DOMAIN e |-> IF x \in DOMAIN e THEN e[x] ELSE d[x]]

VARIABLES
    config,     \* registry: configured provider -> data
    history,    \* registry: History scratch space, key -> value
    playlists,  \* registry: the ordered sequence of playlist records
    tracks,     \* registry: track id -> track record
    remote,     \* video platform: remote playlist id -> set of items
    clock,      \* what timestamp() returns during the running command
    cmd,        \* the running (or last run) command
    argv,       \* its arguments and prompted inputs
    prev,       \* the command run before it, and whether all its calls succeeded
    pc,         \* position in the running command ("idle": none runs)
    all,        \* push was invoked with --all and no subcommand
    queue,      \* the playlists (ids) the running loop iterates over
    idx,        \* index in queue of the playlist being processed
    items,      \* push_tracks: the fetched remote items of the playlist
    add,        \* push_tracks: video ids to add
    remove,     \* push_tracks: video ids to remove
    k,          \* push_tracks: index of the next add / remove call
    calls,      \* the calls the running command has made to its collaborators
    output,     \* the messages the running command has printed
    asked,      \* the running command asked the user to confirm
    exit_code,  \* exit code of the last finished command
    failures    \* remote calls that have failed so far

vars == <<config, history, playlists, tracks, remote, clock, cmd, argv, prev, pc,
          all,
          queue, idx, items, add, remove, k, calls, output, asked, exit_code,
          failures>>

registry == <<config, history, playlists, tracks>>
locals == <<queue, idx, items, add, remove, k>>

\* ---------------------------------------------------------------- helpers
Range(s) == {s[i] : i \in DOMAIN s}

Min(S) == CHOOSE x \in S : \A y \in S : x <= y

\* sorted(set of video ids): ascending
RECURSIVE sorted(_)
sorted(S) ==
    IF S = {} THEN <<>> ELSE <<Min(S)>> \o sorted(S \ {Min(S)})

\* sorted(list of playlist items): items compare by their fields, id first
RECURSIVE sorted_items(_)
sorted_items(S) ==
    IF S = {} THEN <<>>
    ELSE LET m == CHOOSE x \in S : \A y \in S : x.id <= y.id
         IN <<m>> \o sorted_items(S \ {m})

\* one printed message
Msg(text, arg) == [text |-> text, arg |-> arg]

\* one entry of the call log
Call(op, pl, arg, ok) == [op |-> op, pl |-> pl, arg |-> arg, ok |-> ok]

\* a remote call succeeds (ok) or raises
Outcome(ok) ==
    /\ ok \in BOOLEAN
    /\ ~ok => failures < MaxFailures
    /\ failures' = IF ok THEN failures ELSE failures + 1

\* timestamp()
timestamp == clock

\* ------------------------------------------------------- managers (models)
Provider == [lastfm |-> "lastfm", youtube |-> "youtube"]

\* Playlist identity: the deterministic hash of (type, provider, arguments,
\* limit), modelled collision-free by the tuple of the hashed fields.
PlaylistId(type, provider, arguments, limit) ==
    <<type, provider, arguments, limit>>

PlaylistIndex(pls, id) ==
    IF \E i \in DOMAIN pls : pls[i].id = id
    THEN CHOOSE i \in DOMAIN pls : pls[i].id = id
    ELSE 0

\* PlaylistManager.get(id); callers guard on existence
PlaylistManagerGet(pls, id) == pls[PlaylistIndex(pls, id)]

\* mutant of PlaylistManagerUpdate: the patch is not persisted
PlaylistManagerUpdate_NotSaved(pls, id, field, value, now) == pls

\* PlaylistManager.update(playlist, {field: value}): apply the patch, bump
\* modified, persist.
PlaylistManagerUpdate(pls, id, field, value, now) ==
    [i \in DOMAIN pls |->
        IF pls[i].id = id
        THEN [[pls[i] EXCEPT ![field] = value] EXCEPT !.modified = now]
        ELSE pls[i]]

\* mutant of FindNewPlaylists: every playlist is taken for a new one
FindNewPlaylists_All(pls) == pls

\* PlaylistManager.find(youtube_id=None)
FindNewPlaylists(pls) == SelectSeq(pls, LAMBDA p : p.youtube_id = NULL)

\* PlaylistManager.find(youtube_id=lambda x: x is not None)
FindOnlinePlaylists(pls) == SelectSeq(pls, LAMBDA p : p.youtube_id # NULL)

\* TrackManager.find(youtube_id=lambda x: x is not None,
\*                   id=lambda x: x in playlist.tracks)
FindPlaylistTracks(trs, playlist) ==
    {t \in DOMAIN trs : trs[t].youtube_id # NULL /\ t \in playlist.tracks}

\* ------------------------------------------------------ youtube (models)
\* YouService.get_playlist_items(playlist)
GetPlaylistItems(rem, playlist) ==
    IF playlist.youtube_id \in DOMAIN rem THEN rem[playlist.youtube_id] ELSE {}

AllItemIds(rem) == UNION {{i.id : i \in rem[y]} : y \in DOMAIN rem}

FreshItemId(rem) == Min({n \in 1..(Cardinality(AllItemIds(rem)) + 1) :
                            n \notin AllItemIds(rem)})

\* YouService.create_playlist_item(playlist, video_id)
CreatePlaylistItem(rem, playlist, video_id) ==
    LET y == playlist.youtube_id
        old == IF y \in DOMAIN rem THEN rem[y] ELSE {}
        new == old \cup {[id |-> FreshItemId(rem), video_id |-> video_id]}
    IN [z \in DOMAIN rem \cup {y} |-> IF z = y THEN new ELSE rem[z]]

\* YouService.remove_playlist_item(item)
RemovePlaylistItem(rem, item) ==
    [z \in DOMAIN rem |-> rem[z] \ {item}]

FreshPlaylistId(rem) == Min({n \in 1..(Cardinality(DOMAIN rem) + 1) :
                                n \notin DOMAIN rem})

\* YouService.create_playlist(playlist): the new remote playlist, empty
CreatePlaylist(rem) ==
    [z \in DOMAIN rem \cup {FreshPlaylistId(rem)} |->
        IF z \in DOMAIN rem THEN rem[z] ELSE {}]

\* ------------------------------------------------------------------- push
Current == PlaylistManagerGet(playlists, queue[idx])

\* A command starts: the clock ticks, the logs are cleared.
Begin(name, args) ==
    /\ pc = "idle"
    /\ clock < MaxClock
    /\ clock' = clock + 1
    /\ cmd' = name
    /\ argv' = args
    /\ prev' = [cmd |-> cmd, ok |-> \A i \in DOMAIN calls : calls[i].ok]
    /\ calls' = <<>>
    /\ asked' = FALSE

\* The running command returns normally.
Finish ==
    /\ pc' = "idle"
    /\ exit_code' = 0

\* mutant of ToAdd: everything offline is added again
ToAdd_All(offline, online) == offline

\* push_tracks line 59
ToAdd(offline, online) == offline \ online

\* mutant of ToRemove: everything online is removed
ToRemove_All(offline, online) == online

\* mutant of ToRemove: nothing is ever removed
ToRemove_Nothing(offline, online) == {}

\* push_tracks line 60
ToRemove(offline, online) == online \ offline

\* mutant of RemoveList: one item for each video id to remove
RemoveList_OnePerVideo ==
    sorted_items({i \in items :
        /\ i.video_id \in remove
        /\ \A j \in items : j.video_id = i.video_id => i.id <= j.id})

\* push_tracks lines 74-75: the remote items to remove, in call order
RemoveList == sorted_items({i \in items : i.video_id \in remove})

\* mutant of AddList: the ids in descending order
AddList_Reversed ==
    [i \in 1..Cardinality(add) |-> sorted(add)[Cardinality(add) + 1 - i]]

\* push_tracks line 68
AddList == sorted(add)

\* push --all: push_playlists, then push_tracks
PushAll ==
    /\ Begin("push_all", <<>>)
    /\ all' = TRUE
    /\ pc' = "pp_start"
    /\ output' = <<>>
    /\ UNCHANGED <<registry, remote, locals, exit_code, failures>>

\* push with neither a subcommand nor --all: prints the help; click.Abort()
\* is constructed and never raised
PushHelp ==
    /\ Begin("push_help", <<>>)
    /\ all' = FALSE
    /\ output' = <<Msg("help", NULL)>>
    /\ Finish
    /\ UNCHANGED <<registry, remote, locals, failures>>

\* push playlists
PushPlaylists ==
    /\ Begin("push_playlists", <<>>)
    /\ all' = FALSE
    /\ pc' = "pp_start"
    /\ output' = <<>>
    /\ UNCHANGED <<registry, remote, locals, exit_code, failures>>

\* push tracks
PushTracks ==
    /\ Begin("push_tracks", <<>>)
    /\ all' = FALSE
    /\ pc' = "pt_start"
    /\ output' = <<>>
    /\ UNCHANGED <<registry, remote, locals, exit_code, failures>>

\* mutant of AfterPushPlaylists: push --all stops after push_playlists
AfterPushPlaylists_Finish == Finish

\* where push_playlists goes when it returns
AfterPushPlaylists ==
    IF all
    THEN pc' = "pt_start" /\ UNCHANGED exit_code
    ELSE Finish

\* push_playlists lines 26-30
PpStart ==
    /\ pc = "pp_start"
    /\ LET found == FindNewPlaylists(playlists)
       IN /\ queue' = [i \in DOMAIN found |-> found[i].id]
          /\ idx' = 1
          /\ IF Len(found) = 0
             THEN /\ output' = Append(output, Msg("There are no new playlists", NULL))
                  /\ AfterPushPlaylists
             ELSE /\ output' = Append(output, Msg("Creating playlists", NULL))
                  /\ pc' = "pp_create"
                  /\ UNCHANGED exit_code
    /\ UNCHANGED <<registry, remote, clock, cmd, argv, prev, all, items, add, remove, k,
                   calls, asked, failures>>

\* what the spinner does with an exception raised in its block: it reports
\* the failure and the loop goes on with the statement after the block
SpinnerSwallows == TRUE

\* push_playlists lines 31-34, one playlist
PpCreate ==
    /\ pc = "pp_create"
    /\ \E ok \in BOOLEAN :
        /\ Outcome(ok)
        /\ calls' = Append(calls, Call("create_playlist", queue[idx],
                                        IF ok THEN FreshPlaylistId(remote) ELSE NULL,
                                        ok))
        /\ IF ok
           THEN /\ remote' = CreatePlaylist(remote)
                /\ playlists' = PlaylistManagerUpdate(playlists, queue[idx],
                                    "youtube_id", FreshPlaylistId(remote), timestamp)
                /\ idx' = idx + 1
                /\ IF idx = Len(queue)
                   THEN AfterPushPlaylists
                   ELSE UNCHANGED <<pc, exit_code>>
           ELSE /\ UNCHANGED <<remote, playlists>>
                /\ IF SpinnerSwallows
                   THEN /\ idx' = idx + 1
                        /\ IF idx = Len(queue)
                           THEN AfterPushPlaylists
                           ELSE UNCHANGED <<pc, exit_code>>
                   ELSE /\ pc' = "idle"
                        /\ exit_code' = 1
                        /\ UNCHANGED idx
    /\ UNCHANGED <<config, history, tracks, clock, cmd, argv, prev, all, queue, items,
                   add, remove, k, output, asked>>

\* push_tracks lines 40-41
PtStart ==
    /\ pc = "pt_start"
    /\ LET found == FindOnlinePlaylists(playlists)
       IN /\ queue' = [i \in DOMAIN found |-> found[i].id]
          /\ idx' = 1
          /\ IF Len(found) = 0
             THEN Finish
             ELSE pc' = "pt_fetch" /\ UNCHANGED exit_code
    /\ output' = Append(output, Msg("Syncing playlists", NULL))
    /\ items' = {}
    /\ add' = {}
    /\ remove' = {}
    /\ k' = 1
    /\ UNCHANGED <<registry, remote, clock, cmd, argv, prev, all, calls, asked, failures>>

\* the loop of push_tracks moves to the next playlist, or the command ends
PtAdvance ==
    /\ idx' = idx + 1
    /\ k' = 1
    /\ IF idx = Len(queue)
       THEN Finish
       ELSE pc' = "pt_fetch" /\ UNCHANGED exit_code

\* mutant of PtStamp: the timestamp is never written
PtStamp_Skipped == UNCHANGED playlists

\* mutant of PtStamp: every playlist is stamped
PtStamp_Every ==
    playlists' = [i \in DOMAIN playlists |->
                    [playlists[i] EXCEPT !.uploaded = timestamp,
                                         !.modified = timestamp]]

\* push_tracks line 79
PtStamp ==
    playlists' = PlaylistManagerUpdate(playlists, queue[idx], "uploaded",
                                      timestamp, timestamp)

\* push_tracks lines 43-64: fetch the remote items, diff
PtFetch ==
    /\ pc = "pt_fetch"
    /\ \E ok \in BOOLEAN :
        LET fetched == IF ok THEN GetPlaylistItems(remote, Current) ELSE {}
            online == {i.video_id : i \in fetched}
            offline == {tracks[t].youtube_id :
                            t \in FindPlaylistTracks(tracks, Current)}
            a == IF ok THEN ToAdd(offline, online) ELSE {}
            r == IF ok THEN ToRemove(offline, online) ELSE {}
        IN /\ Outcome(ok)
           /\ calls' = Append(calls,
                          Call("get_playlist_items", queue[idx], NULL, ok))
           /\ IF ~ok /\ ~SpinnerSwallows
              THEN /\ pc' = "idle"
                   /\ exit_code' = 1
                   /\ UNCHANGED <<items, add, remove, idx, k, output>>
              ELSE /\ items' = fetched
                   /\ add' = a
                   /\ remove' = r
                   /\ IF a = {} /\ r = {}
                      THEN /\ output' = Append(output, Msg("Playlist is already synced!", NULL))
                           /\ PtAdvance
                      ELSE /\ pc' = IF a # {} THEN "pt_add" ELSE "pt_remove"
                           /\ k' = 1
                           /\ UNCHANGED <<idx, exit_code, output>>
    /\ UNCHANGED <<registry, remote, clock, cmd, argv, prev, all, queue, asked>>

\* push_tracks lines 66-70: one add-item call
PtAdd ==
    /\ pc = "pt_add"
    /\ \E ok \in BOOLEAN :
        /\ Outcome(ok)
        /\ calls' = Append(calls,
                       Call("create_playlist_item", queue[idx], AddList[k], ok))
        /\ remote' = IF ok
                     THEN CreatePlaylistItem(remote, Current, AddList[k])
                     ELSE remote
        /\ IF ~ok /\ ~SpinnerSwallows
           THEN /\ pc' = "idle"
                /\ exit_code' = 1
                /\ UNCHANGED <<playlists, idx, k>>
           ELSE IF k < Len(AddList)
           THEN /\ k' = k + 1
                /\ UNCHANGED <<playlists, idx, pc, exit_code>>
           ELSE IF remove # {}
           THEN /\ k' = 1
                /\ pc' = "pt_remove"
                /\ UNCHANGED <<playlists, idx, exit_code>>
           ELSE /\ PtStamp
                /\ PtAdvance
    /\ UNCHANGED <<config, history, tracks, clock, cmd, argv, prev, all, queue, items,
                   add, remove, output, asked>>

\* push_tracks lines 72-79: one remove-item call
PtRemove ==
    /\ pc = "pt_remove"
    /\ \E ok \in BOOLEAN :
        /\ Outcome(ok)
        /\ calls' = Append(calls,
                       Call("remove_playlist_item", queue[idx], RemoveList[k], ok))
        /\ remote' = IF ok
                     THEN RemovePlaylistItem(remote, RemoveList[k])
                     ELSE remote
        /\ IF ~ok /\ ~SpinnerSwallows
           THEN /\ pc' = "idle"
                /\ exit_code' = 1
                /\ UNCHANGED <<playlists, idx, k>>
           ELSE IF k < Len(RemoveList)
           THEN /\ k' = k + 1
                /\ UNCHANGED <<playlists, idx, pc, exit_code>>
           ELSE /\ PtStamp
                /\ PtAdvance
    /\ UNCHANGED <<config, history, tracks, clock, cmd, argv, prev, all, queue, items,
                   add, remove, output, asked>>

\* ------------------------------------------------- a loaded registry (push)
\* str.lower(), on the strings of the model
Lower(str) ==
    CASE str = "A" -> "a"
      [] str = "@A" -> "@a"
      [] str = "GR" -> "gr"
      [] OTHER -> str

\* Track identity: the deterministic hash of (artist, name), case-insensitive,
\* modelled collision-free by the tuple of the lowered fields.
TrackId(artist, name) == <<Lower(artist), Lower(name)>>

NameOf(t) == <<"a", "b", "c", "d", "e", "f">>[t]

ArtistOf(t) == <<"@a", "@b", "@c", "@d", "@e", "@f">>[t]

TrackIdOf(t) == TrackId(ArtistOf(t), NameOf(t))

\* Track t of a loaded registry: all have a video but the last one.
InitTrack(t) ==
    [id |-> TrackIdOf(t), artist |-> ArtistOf(t), name |-> NameOf(t),
     duration |-> NULL,
     youtube_id |-> IF t = MaxTracks THEN NULL ELSE t]

InitTracks ==
    [id \in {TrackIdOf(t) : t \in 1..MaxTracks} |->
        InitTrack(CHOOSE t \in 1..MaxTracks : TrackIdOf(t) = id)]

\* Item i on the platform: video 2, and every other item video 3.
InitItem(i) ==
    [id |-> i, video_id |-> IF i = 1 THEN 2 ELSE 3]

\* Item i when the platform holds one video several times: video 3
SameVideoItem(i) == [id |-> i, video_id |-> 3]

\* The playlists of a loaded registry: chart, tag, artist, country.
InitType(i) ==
    CASE i = 1 -> "chart"
      [] i = 2 -> "tag"
      [] i = 3 -> "artist"
      [] OTHER -> "country"

InitArguments(i) ==
    CASE i = 1 -> {}
      [] i = 2 -> {<<"tag", "rock">>}
      [] i = 3 -> {<<"artist", "Queen">>}
      [] OTHER -> {<<"country", "greece">>}

InitPlaylist(i, yid, trs, synced) ==
    [id |-> PlaylistId(InitType(i), Provider.lastfm, InitArguments(i), MinLimit),
     type |-> InitType(i), provider |-> Provider.lastfm,
     arguments |-> InitArguments(i), limit |-> MinLimit, title |-> <<>>,
     tracks |-> trs, youtube_id |-> yid,
     modified |-> 1, synced |-> synced, uploaded |-> NULL]

InitControl ==
    /\ clock = 1
    /\ cmd = "none"
    /\ argv = <<>>
    /\ prev = [cmd |-> "none", ok |-> TRUE]
    /\ pc = "idle"
    /\ all = FALSE
    /\ queue = <<>>
    /\ idx = 1
    /\ items = {}
    /\ add = {}
    /\ remove = {}
    /\ k = 1
    /\ calls = <<>>
    /\ output = <<>>
    /\ asked = FALSE
    /\ exit_code = 0
    /\ failures = 0

InitPush ==
    /\ InitControl
    /\ config = EmptyDict
    /\ history = EmptyDict
    /\ tracks = InitTracks
    /\ \E n \in 0..MaxPlaylists :
        \E yids \in [1..n -> BOOLEAN] :
        \E trs \in [1..n -> SUBSET {TrackIdOf(t) : t \in 1..MaxTracks}] :
            /\ playlists = [i \in 1..n |->
                    InitPlaylist(i, IF yids[i] THEN i ELSE NULL, trs[i], NULL)]
            /\ \E where \in [1..MaxItems -> {NULL} \cup {i \in 1..n : yids[i]}],
                  same \in BOOLEAN :
                remote = [y \in {i \in 1..n : yids[i]} |->
                            {IF same THEN SameVideoItem(i) ELSE InitItem(i) :
                                i \in {j \in 1..MaxItems : where[j] = y}}]

NextPush ==
    \/ PushAll
    \/ PushHelp
    \/ PushPlaylists
    \/ PushTracks
    \/ PpStart
    \/ PpCreate
    \/ PtStart
    \/ PtFetch
    \/ PtAdd
    \/ PtRemove

SpecPush == InitPush /\ [][NextPush]_vars


\* ------------------------------------------------------------- lastfm add
\* str.upper(), on the strings of the model
Upper(str) ==
    CASE str = "gr" -> "GR"
      [] str = "xx" -> "XX"
      [] OTHER -> str

\* what a ParamType's convert gives for a value it fails on
BadParameter == "BadParameter"

\* pytubefm.iso3166.countries
countries == [GR |-> "Greece"]

\* CountryParamType.convert
CountryConvert(value) ==
    IF Upper(value) \in DOMAIN countries
    THEN Lower(countries[Upper(value)])
    ELSE BadParameter

\* what last.fm knows
KnownTags == {"rock"}
KnownArtists == {"Queen"}
KnownUsers == {"bbb"}

\* TagParamType.convert: LastService.get_tag(value), IndexError fails
TagConvert(value) == IF value \in KnownTags THEN value ELSE BadParameter

\* ArtistParamType.convert: LastService.get_artist(value), Exception fails
ArtistConvert(value) == IF value \in KnownArtists THEN value ELSE BadParameter

\* UserParamType.convert: LastService.get_user(value), Exception fails
UserConvert(value) == IF value \in KnownUsers THEN value ELSE BadParameter

\* mutant of LimitInRange: any integer is accepted
LimitInRange_Any(value) == TRUE

\* click.IntRange(50, 1000) accepts the value
LimitInRange(value) == MinLimit <= value /\ value <= MaxLimit

\* UserPlaylistType.range() and UserPlaylistType.from_choice
UserPlaylistChoices == 1..4

UserPlaylistType(choice) ==
    <<"user_loved_tracks", "user_top_tracks", "user_recent_tracks",
      "user_friends_recent_tracks">>[choice]

\* str.strip(), a string being a sequence of characters
RECURSIVE lstrip(_)
lstrip(str) ==
    IF str # <<>> /\ Head(str) = " " THEN lstrip(Tail(str)) ELSE str

RECURSIVE rstrip(_)
rstrip(str) ==
    IF str # <<>> /\ str[Len(str)] = " "
    THEN rstrip(SubSeq(str, 1, Len(str) - 1))
    ELSE str

strip(str) == rstrip(lstrip(str))

\* mutant of PlaylistManagerSet: a record is inserted, whatever is there
PlaylistManagerSet_Insert(pls, data, now) ==
    Append(pls,
        [id |-> PlaylistId(data.type, data.provider, data.arguments, data.limit),
         type |-> data.type, provider |-> data.provider,
         arguments |-> data.arguments, limit |-> data.limit,
         title |-> data.title, tracks |-> {}, youtube_id |-> NULL,
         modified |-> now, synced |-> NULL, uploaded |-> NULL])

\* PlaylistManager.set(data): the id is computed from (type, provider,
\* arguments, limit); an existing record gets the title and a new modified
\* and keeps tracks, youtube_id, synced and uploaded, else a record is
\* inserted.
PlaylistManagerSet(pls, data, now) ==
    LET id == PlaylistId(data.type, data.provider, data.arguments, data.limit)
    IN IF PlaylistIndex(pls, id) # 0
       THEN [i \in DOMAIN pls |->
                IF pls[i].id = id
                THEN [pls[i] EXCEPT !.title = data.title, !.modified = now]
                ELSE pls[i]]
       ELSE Append(pls,
                [id |-> id, type |-> data.type, provider |-> data.provider,
                 arguments |-> data.arguments, limit |-> data.limit,
                 title |-> data.title, tracks |-> {}, youtube_id |-> NULL,
                 modified |-> now, synced |-> NULL, uploaded |-> NULL])

\* mutant of AddedOrUpdated: the message follows uploaded, not synced
AddedOrUpdated_ByUploaded(playlist) ==
    IF playlist.uploaded # NULL THEN "Updated" ELSE "Added"

\* "Updated" if playlist.synced else "Added"
AddedOrUpdated(playlist) ==
    IF playlist.synced # NULL THEN "Updated" ELSE "Added"

push_state == <<remote, all, queue, idx, items, add, remove, k, failures>>

\* click refuses a parameter: usage error, the command body does not run
UsageError ==
    /\ output' = <<Msg("Error: Invalid value", NULL)>>
    /\ exit_code' = 2
    /\ UNCHANGED registry

\* The body the five add commands share: History.set, PlaylistManager.set,
\* the message.
AddPlaylist(type, arguments, limit, title, hist) ==
    LET data == [type |-> type, provider |-> Provider.lastfm,
                 arguments |-> arguments, limit |-> limit,
                 title |-> strip(title)]
        after == PlaylistManagerSet(playlists, data, clock + 1)
        playlist == PlaylistManagerGet(after,
                        PlaylistId(type, Provider.lastfm, arguments, limit))
    IN /\ history' = DictUpdate(history, hist)
       /\ playlists' = after
       /\ output' = <<Msg(AddedOrUpdated(playlist), playlist.id)>>
       /\ exit_code' = 0
       /\ UNCHANGED <<config, tracks>>

\* what the user may type
UserInputs == {"bbb", "nosuchuser"}
CountryInputs == {"gr", "xx"}
TagInputs == {"rock", "nosuchtag"}
ArtistInputs == {"Queen", "nosuchartist"}
LimitInputs == {MinLimit - 1, MinLimit, MaxLimit, MaxLimit + 1}
TitleInputs == {<<"X">>, <<" ", "Y", " ">>}

\* lastfm add user
add_user_playlist ==
    \E user \in UserInputs, playlist_type \in UserPlaylistChoices,
       limit \in LimitInputs, title \in TitleInputs :
        /\ Begin("add_user", <<user, playlist_type, limit, title>>)
        /\ IF UserConvert(user) = BadParameter
              \/ ~LimitInRange(limit)
           THEN UsageError
           ELSE AddPlaylist(UserPlaylistType(playlist_type),
                            {<<"username", UserConvert(user)>>}, limit, title,
                            [h \in {"user", "limit"} |->
                                IF h = "user" THEN UserConvert(user) ELSE limit])
        /\ UNCHANGED <<pc, push_state>>

\* lastfm add chart
add_chart_playlist ==
    \E limit \in LimitInputs, title \in TitleInputs :
        /\ Begin("add_chart", <<limit, title>>)
        /\ IF ~LimitInRange(limit)
           THEN UsageError
           ELSE AddPlaylist("chart", {}, limit, title,
                            [h \in {"limit"} |-> limit])
        /\ UNCHANGED <<pc, push_state>>

\* lastfm add country
add_country_playlist ==
    \E country \in CountryInputs, limit \in LimitInputs, title \in TitleInputs :
        /\ Begin("add_country", <<country, limit, title>>)
        /\ IF CountryConvert(country) = BadParameter
              \/ ~LimitInRange(limit)
           THEN UsageError
           ELSE AddPlaylist("country",
                            {<<"country", CountryConvert(country)>>}, limit,
                            title, [h \in {"limit"} |-> limit])
        /\ UNCHANGED <<pc, push_state>>

\* lastfm add tag
add_tag_playlist ==
    \E tag \in TagInputs, limit \in LimitInputs, title \in TitleInputs :
        /\ Begin("add_tag", <<tag, limit, title>>)
        /\ IF TagConvert(tag) = BadParameter
              \/ ~LimitInRange(limit)
           THEN UsageError
           ELSE AddPlaylist("tag", {<<"tag", TagConvert(tag)>>}, limit, title,
                            [h \in {"limit"} |-> limit])
        /\ UNCHANGED <<pc, push_state>>

\* lastfm add artist
add_artist_playlist ==
    \E artist \in ArtistInputs, limit \in LimitInputs, title \in TitleInputs :
        /\ Begin("add_artist", <<artist, limit, title>>)
        /\ IF ArtistConvert(artist) = BadParameter
              \/ ~LimitInRange(limit)
           THEN UsageError
           ELSE AddPlaylist("artist", {<<"artist", ArtistConvert(artist)>>},
                            limit, title, [h \in {"limit"} |-> limit])
        /\ UNCHANGED <<pc, push_state>>

NoRemote == [y \in {} |-> {}]

\* A loaded registry for add: playlists, synced before or never.
InitAdd ==
    /\ InitControl
    /\ config = EmptyDict
    /\ history = EmptyDict
    /\ tracks = EmptyDict
    /\ remote = NoRemote
    /\ \E n \in 0..MaxPlaylists :
        \E synced \in [1..n -> {NULL, 1}] :
            playlists = [i \in 1..n |-> InitPlaylist(i, NULL, {}, synced[i])]

NextAdd ==
    \/ add_user_playlist
    \/ add_chart_playlist
    \/ add_country_playlist
    \/ add_tag_playlist
    \/ add_artist_playlist

SpecAdd == InitAdd /\ [][NextAdd]_vars


\* ------------------------------------------------------------------ setup
\* ConfigManager.get(provider, default=None), as a condition
ConfigManagerGet(cfg, provider) == provider \in DOMAIN cfg

\* ConfigManager.set(dict(provider=..., data=...))
ConfigManagerSet(cfg, provider, data) ==
    [x \in DOMAIN cfg \cup {provider} |-> IF x = provider THEN data ELSE cfg[x]]

\* mutant of MustConfirm: the configuration is overwritten without asking
MustConfirm_Never(provider) == FALSE

\* setup: the confirmation is asked when the provider is configured
MustConfirm(provider) == ConfigManagerGet(config, provider)

\* mutant of Confirmed: click.confirm without abort=True
Confirmed_Always(answer) == TRUE

\* click.confirm(..., abort=True) returns: the user said yes
Confirmed(answer) == answer

\* what the terminal shows of the user's answer to a prompt
Echo(answer) == IF answer THEN "y" ELSE "n"

\* click.confirm(..., abort=True) raises Abort: the user said no
Aborted(question) ==
    /\ asked' = TRUE
    /\ output' = <<Msg(question, "n"), Msg("Aborted!", NULL)>>
    /\ calls' = <<>>
    /\ exit_code' = 1
    /\ UNCHANGED registry

\* what a command is given that asks before it acts
BeginAsking(name, args) ==
    /\ pc = "idle"
    /\ clock < MaxClock
    /\ clock' = clock + 1
    /\ cmd' = name
    /\ argv' = args
    /\ prev' = [cmd |-> cmd, ok |-> \A i \in DOMAIN calls : calls[i].ok]

ApiKeys == {"aaaa", "bbbb"}
ClientSecrets == {"secret1.json", "secret2.json"}

\* the answers the user may have to give: none is asked for when no
\* confirmation is due
Answers(due) == IF due THEN BOOLEAN ELSE {TRUE}

\* lastfm setup
lastfm_setup ==
    \E api_key \in ApiKeys, answer \in Answers(MustConfirm(Provider.lastfm)) :
        /\ BeginAsking("lastfm_setup", <<api_key>>)
        /\ IF MustConfirm(Provider.lastfm) /\ ~Confirmed(answer)
           THEN Aborted("Overwrite existing configuration?")
           ELSE /\ asked' = MustConfirm(Provider.lastfm)
                /\ config' = ConfigManagerSet(config, Provider.lastfm,
                                              [api_key |-> api_key])
                /\ calls' = <<Call("ConfigManager.set", Provider.lastfm,
                                   api_key, TRUE)>>
                /\ output' =
                      (IF MustConfirm(Provider.lastfm)
                       THEN <<Msg("Overwrite existing configuration?", Echo(answer))>>
                       ELSE <<>>)
                      \o <<Msg("Last.fm configuration updated!", NULL)>>
                /\ exit_code' = 0
                /\ UNCHANGED <<history, playlists, tracks>>
        /\ UNCHANGED <<pc, push_state>>

\* YouService.authorize(client_secrets): the credentials
Authorize(client_secrets) ==
    [refresh_token |-> "refresh_token", token_uri |-> "token_uri",
     client_id |-> client_secrets, client_secret |-> client_secrets,
     scopes |-> "scopes"]

\* youtube setup
youtube_setup ==
    \E client_secrets \in ClientSecrets,
       answer \in Answers(MustConfirm(Provider.youtube)),
       ok \in BOOLEAN :
        /\ BeginAsking("youtube_setup", <<client_secrets>>)
        /\ IF MustConfirm(Provider.youtube) /\ ~Confirmed(answer)
           THEN /\ ok
                /\ Aborted("Overwrite existing configuration?")
                /\ UNCHANGED failures
           ELSE /\ Outcome(ok)
                /\ asked' = MustConfirm(Provider.youtube)
                /\ LET credentials == Authorize(client_secrets)
                       question ==
                           IF MustConfirm(Provider.youtube)
                           THEN <<Msg("Overwrite existing configuration?", Echo(answer))>>
                           ELSE <<>>
                   IN IF ok
                      THEN /\ config' = ConfigManagerSet(config, Provider.youtube,
                                 [refresh_token |-> credentials.refresh_token,
                                  token_uri |-> credentials.token_uri,
                                  client_id |-> credentials.client_id,
                                  client_secret |-> credentials.client_secret,
                                  scopes |-> credentials.scopes])
                           /\ calls' = <<Call("YouService.authorize",
                                              Provider.youtube, client_secrets, TRUE),
                                         Call("ConfigManager.set",
                                              Provider.youtube, client_secrets, TRUE)>>
                           /\ output' = question
                                 \o <<Msg("Youtube configuration updated!", NULL)>>
                           /\ exit_code' = 0
                      ELSE /\ config' = config
                           /\ calls' = <<Call("YouService.authorize",
                                              Provider.youtube, client_secrets, FALSE)>>
                           /\ output' = question
                           /\ exit_code' = 1
                /\ UNCHANGED <<history, playlists, tracks>>
        /\ UNCHANGED <<pc, remote, all, queue, idx, items, add, remove, k>>

\* ----------------------------------------------------------------- remove
\* mutant of PlaylistManagerRemove: the record stays
PlaylistManagerRemove_Nothing(pls, id) == pls

\* PlaylistManager.remove(id), the id being there
PlaylistManagerRemove(pls, id) == SelectSeq(pls, LAMBDA p : p.id # id)

\* remove_playlists lines 305-307: the loop over the ids; NotFound ends it
RECURSIVE RemoveLoop(_, _)
RemoveLoop(pls, ids) ==
    IF ids = <<>>
    THEN [playlists |-> pls, calls |-> <<>>, output |-> <<>>, exit_code |-> 0]
    ELSE IF PlaylistIndex(pls, Head(ids)) = 0
    THEN [playlists |-> pls,
          calls |-> <<Call("PlaylistManager.remove", NULL, Head(ids), FALSE)>>,
          output |-> <<Msg("NotFound", Head(ids))>>,
          exit_code |-> 1]
    ELSE LET rest == RemoveLoop(PlaylistManagerRemove(pls, Head(ids)), Tail(ids))
         IN [playlists |-> rest.playlists,
             calls |-> <<Call("PlaylistManager.remove", NULL, Head(ids), TRUE)>>
                          \o rest.calls,
             output |-> <<Msg("Removed playlist", Head(ids))>> \o rest.output,
             exit_code |-> rest.exit_code]

\* the ids the user may give: those of the registry's fixtures, there or not
RemoveIds ==
    {InitPlaylist(i, NULL, {}, NULL).id : i \in 1..(MaxPlaylists + 1)}

IdLists == {<<a>> : a \in RemoveIds} \cup {<<a, b>> : a, b \in RemoveIds}

\* lastfm remove
remove_playlists ==
    \E ids \in IdLists, answer \in BOOLEAN :
        /\ BeginAsking("remove", ids)
        /\ IF ~Confirmed(answer)
           THEN Aborted("Do you want to continue?")
           ELSE LET loop == RemoveLoop(playlists, ids)
                IN /\ asked' = TRUE
                   /\ playlists' = loop.playlists
                   /\ calls' = loop.calls
                   /\ output' = <<Msg("Do you want to continue?", Echo(answer))>>
                                   \o loop.output
                   /\ exit_code' = loop.exit_code
                   /\ UNCHANGED <<config, history, tracks>>
        /\ UNCHANGED <<pc, push_state>>

\* what list may be given: no id, or one
ListArgs == {<<>>} \cup {<<a>> : a \in RemoveIds}

\* lastfm list: with an id, PlaylistManager.get(id) and the table of the
\* playlist's tracks, NotFound ending the command; with none, the table of
\* the last.fm playlists
list_playlists ==
    \E args \in ListArgs :
        /\ BeginAsking("list", args)
        /\ asked' = FALSE
        /\ IF args # <<>>
           THEN LET id == args[1]
                    found == PlaylistIndex(playlists, id) # 0
                IN /\ calls' = <<Call("PlaylistManager.get", NULL, id, found)>>
                   /\ output' = <<Msg(IF found THEN "Tracks" ELSE "NotFound", id)>>
                   /\ exit_code' = IF found THEN 0 ELSE 1
           ELSE /\ calls' = <<>>
                /\ output' = <<Msg("Playlists",
                        Len(SelectSeq(playlists,
                                LAMBDA q : q.provider = Provider.lastfm)))>>
                /\ exit_code' = 0
        /\ UNCHANGED <<registry, pc, push_state>>

\* A registry for setup and remove: configured or not, with playlists.
InitAdmin ==
    /\ InitControl
    /\ config \in {EmptyDict,
                   [x \in {Provider.lastfm} |-> [api_key |-> "bbbb"]]}
    /\ history = EmptyDict
    /\ tracks = EmptyDict
    /\ remote = NoRemote
    /\ \E n \in 0..MaxPlaylists :
            playlists = [i \in 1..n |-> InitPlaylist(i, NULL, {}, NULL)]

NextAdmin ==
    \/ lastfm_setup
    \/ youtube_setup
    \/ remove_playlists
    \/ list_playlists

SpecAdmin == InitAdmin /\ [][NextAdmin]_vars


\* ------------------------------------------------------------------- sync
\* mutant of TrackManagerSet: the record is replaced, not merged
TrackManagerSet_Replace(trs, entry) ==
    LET id == TrackId(entry.artist, entry.name)
    IN [x \in DOMAIN trs \cup {id} |->
            IF x = id
            THEN [id |-> id, artist |-> entry.artist, name |-> entry.name,
                  duration |-> entry.duration, youtube_id |-> NULL]
            ELSE trs[x]]

\* TrackManager.set(attrs): the id is computed from (artist, name); an
\* existing record takes the non-null incoming fields, else a record is
\* inserted.
TrackManagerSet(trs, entry) ==
    LET id == TrackId(entry.artist, entry.name)
    IN IF id \in DOMAIN trs
       THEN [trs EXCEPT ![id] =
                [@ EXCEPT !.artist = entry.artist, !.name = entry.name,
                          !.duration =
                              IF entry.duration # NULL THEN entry.duration ELSE @]]
       ELSE [x \in DOMAIN trs \cup {id} |->
                IF x = id
                THEN [id |-> id, artist |-> entry.artist, name |-> entry.name,
                      duration |-> entry.duration, youtube_id |-> NULL]
                ELSE trs[x]]

\* mutant of SetTracks: the entries are not set
SetTracks_None(trs, tracklist) == trs

\* sync_playlists lines 324-335: every entry of the tracklist is set
RECURSIVE SetTracks(_, _)
SetTracks(trs, tracklist) ==
    IF tracklist = <<>> THEN trs
    ELSE SetTracks(TrackManagerSet(trs, Head(tracklist)), Tail(tracklist))

\* ... and the set of the ids TrackManager.set returned
TrackIds(tracklist) ==
    {TrackId(tracklist[i].artist, tracklist[i].name) : i \in DOMAIN tracklist}

\* what LastService.get_tracks may return
Entries ==
    {[artist |-> "@a", name |-> "a", duration |-> NULL],
     [artist |-> "@A", name |-> "A", duration |-> 120]}

MaxEntries == 2

TrackLists ==
    UNION {[1..n -> Entries] : n \in 0..MaxEntries}

\* a playlist of another provider than last.fm
OtherPlaylist ==
    [InitPlaylist(1, NULL, {}, NULL) EXCEPT
        !.provider = Provider.youtube,
        !.id = PlaylistId(InitType(1), Provider.youtube, InitArguments(1),
                          MinLimit)]

\* the ids the user may give to sync: none, one, or the first two fixtures'
SyncIdLists ==
    {<<>>} \cup {<<a>> : a \in RemoveIds \cup {OtherPlaylist.id}}
           \cup {<<InitPlaylist(2, NULL, {}, NULL).id,
                   InitPlaylist(1, NULL, {}, NULL).id>>}

\* PlaylistManager.find(provider=...)
FindProviderPlaylists(pls, provider) ==
    SelectSeq(pls, LAMBDA p : p.provider = provider)

\* mutant of FilterIds: the ids are ignored
FilterIds_All(found, ids) == found

\* sync_playlists lines 316-317
FilterIds(found, ids) ==
    IF ids # <<>>
    THEN SelectSeq(found, LAMBDA p : p.id \in Range(ids))
    ELSE found

\* sync_playlists lines 315-317
sync_playlists ==
    \E ids \in SyncIdLists :
        /\ Begin("sync", ids)
        /\ LET found == FindProviderPlaylists(playlists, Provider.lastfm)
               chosen == FilterIds(found, ids)
           IN /\ queue' = [i \in DOMAIN chosen |-> chosen[i].id]
              /\ idx' = 1
              /\ IF Len(chosen) = 0
                 THEN Finish
                 ELSE pc' = "sy_fetch" /\ UNCHANGED exit_code
        /\ output' = <<>>
        /\ UNCHANGED <<registry, remote, all, items, add, remove, k, failures>>

\* sync_playlists lines 320-336, one playlist; an exception of get_tracks
\* is not caught and ends the command
SyFetch ==
    /\ pc = "sy_fetch"
    /\ \E ok \in BOOLEAN, tracklist \in TrackLists :
        /\ Outcome(ok)
        /\ ~ok => tracklist = <<>>
        /\ calls' = Append(calls, Call("get_tracks", queue[idx],
                                        TrackIds(tracklist), ok))
        /\ IF ok
           THEN /\ tracks' = SetTracks(tracks, tracklist)
                /\ playlists' = PlaylistManagerUpdate(playlists, queue[idx],
                                    "tracks", TrackIds(tracklist), timestamp)
                /\ idx' = idx + 1
                /\ IF idx = Len(queue)
                   THEN Finish
                   ELSE UNCHANGED <<pc, exit_code>>
           ELSE /\ pc' = "idle"
                /\ exit_code' = 1
                /\ UNCHANGED <<tracks, playlists, idx>>
    /\ UNCHANGED <<config, history, remote, clock, cmd, argv, prev, all, queue,
                   items, add, remove, k, output, asked>>

\* A loaded registry for sync: playlists never synced, and tracks or none.
InitSync ==
    /\ InitControl
    /\ config = EmptyDict
    /\ history = EmptyDict
    /\ tracks \in {EmptyDict, InitTracks}
    /\ remote = NoRemote
    /\ \E n \in 0..MaxPlaylists, other \in {<<>>, <<OtherPlaylist>>} :
            playlists = [i \in 1..n |-> InitPlaylist(i, NULL, {}, NULL)] \o other

NextSync ==
    \/ sync_playlists
    \/ SyFetch

SpecSync == InitSync /\ [][NextSync]_vars


\* ----------------------------------------------------------- all commands
\* A loaded registry for any command: the tracks but the first, which
\* last.fm has yet to return; playlists of the last.fm provider, created
\* remotely or not, with tracks or none, and items on the platform.
InitAll ==
    /\ InitControl
    /\ config = EmptyDict
    /\ history = EmptyDict
    /\ tracks = [id \in {TrackIdOf(t) : t \in 2..MaxTracks} |-> InitTracks[id]]
    /\ \E n \in 0..MaxPlaylists :
        \E yids \in [1..n -> BOOLEAN] :
        \E trs \in [1..n -> {{}, {TrackIdOf(2), TrackIdOf(MaxTracks)}}] :
            /\ playlists = [i \in 1..n |->
                    InitPlaylist(i, IF yids[i] THEN i ELSE NULL, trs[i], NULL)]
            /\ \E where \in [1..MaxItems -> {NULL} \cup {i \in 1..n : yids[i]}] :
                remote = [y \in {i \in 1..n : yids[i]} |->
                            {InitItem(i) : i \in {j \in 1..MaxItems : where[j] = y}}]

NextAll ==
    \/ NextPush
    \/ NextAdd
    \/ NextAdmin
    \/ NextSync

SpecAll == InitAll /\ [][NextAll]_vars

\* ------------------------------------------------------ claims: push tracks
\* the playlists whose processing by push_tracks is complete
PtDone ==
    IF cmd \in {"push_tracks", "push_all"}
       /\ pc \in {"pt_fetch", "pt_add", "pt_remove", "idle"}
    THEN {queue[j] : j \in 1..(idx - 1)}
    ELSE {}

\* push_tracks has just completed a playlist: its locals are still that
\* playlist's
PtJustDone ==
    /\ cmd \in {"push_tracks", "push_all"}
    /\ pc \in {"pt_fetch", "idle"}
    /\ idx > 1

CallsOf(p, op) == SelectSeq(calls, LAMBDA c : c.op = op /\ c.pl = p)

FetchOk(p) ==
    \E i \in DOMAIN calls :
        /\ calls[i].op = "get_playlist_items"
        /\ calls[i].pl = p
        /\ calls[i].ok

NoCallFailed(p) ==
    \A i \in DOMAIN calls : calls[i].pl = p => calls[i].ok

\* the video ids push_tracks asked the platform to add to playlist p
AddedVideos(p) ==
    {c.arg : c \in Range(CallsOf(p, "create_playlist_item"))}

\* the video ids of the items push_tracks asked the platform to remove
RemovedVideos(p) ==
    {c.arg.video_id : c \in Range(CallsOf(p, "remove_playlist_item"))}

\* offline: the youtube_ids of the tracks that have one and whose id is in
\* the playlist's tracks list
OfflineOf(p) ==
    LET rec == PlaylistManagerGet(playlists, p)
    IN {tracks[t].youtube_id :
            t \in {u \in DOMAIN tracks :
                      u \in rec.tracks /\ tracks[u].youtube_id # NULL}}

\* the video ids on the remote playlist of p now
RemoteVideosOf(p) ==
    LET y == PlaylistManagerGet(playlists, p).youtube_id
    IN IF y \in DOMAIN remote THEN {i.video_id : i \in remote[y]} ELSE {}

\* push_tracks is about to make the first add / remove call of a playlist
PtBeforeFirstCall ==
    /\ pc \in {"pt_add", "pt_remove"}
    /\ k = 1
    /\ (pc = "pt_remove" => add = {})

\* C1: in push tracks, for a playlist with a youtube_id whose items were
\* fetched, the video ids of the add-item calls are exactly offline - online
\* and the video ids of the removed items are exactly online - offline,
\* online being the video ids of the items on the remote playlist.
C1_DiffIsSetDifference ==
    /\ PtBeforeFirstCall =>
          items = remote[PlaylistManagerGet(playlists, queue[idx]).youtube_id]
    /\ (PtJustDone /\ FetchOk(queue[idx - 1])) =>
          LET p == queue[idx - 1]
              online == {i.video_id : i \in items}
          IN /\ AddedVideos(p) = OfflineOf(p) \ online
             /\ RemovedVideos(p) = online \ OfflineOf(p)

\* C1 witness: offline {1,2} and online {2,3}: 1 was added, 3 removed.
C1_Witness ==
    /\ PtJustDone
    /\ FetchOk(queue[idx - 1])
    /\ OfflineOf(queue[idx - 1]) = {1, 2}
    /\ {i.video_id : i \in items} = {2, 3}
    /\ AddedVideos(queue[idx - 1]) = {1}
    /\ RemovedVideos(queue[idx - 1]) = {3}

\* C2: when the remote playlist holds exactly the offline set, push tracks
\* fetches its items and moves on: no add-item and no remove-item call is
\* made and the platform is left as it is.
C2_InSyncNoCalls ==
    [][(/\ pc = "pt_fetch"
        /\ OfflineOf(queue[idx]) = RemoteVideosOf(queue[idx]))
       => (/\ pc' \in {"pt_fetch", "idle"}
           /\ idx' = idx + 1
           /\ remote' = remote
           /\ Len(calls') = Len(calls) + 1
           /\ calls'[Len(calls')].op = "get_playlist_items")]_vars

\* C2 witness: a playlist with a non-empty offline set was fetched, found in
\* sync, and no add or remove call was made for it.
C2_Witness ==
    /\ PtJustDone
    /\ FetchOk(queue[idx - 1])
    /\ OfflineOf(queue[idx - 1]) # {}
    /\ OfflineOf(queue[idx - 1]) = {i.video_id : i \in items}
    /\ AddedVideos(queue[idx - 1]) = {}
    /\ RemovedVideos(queue[idx - 1]) = {}
    /\ output[Len(output)].text = "Playlist is already synced!"

\* C3: for one playlist the add-item calls come in ascending order of video
\* id, one per id of to_add, and all of them before the first remove-item
\* call of that playlist.
C3_AddsSortedBeforeRemoves ==
    /\ \A i, j \in DOMAIN calls :
          (/\ i < j
           /\ calls[i].op \in {"create_playlist_item", "remove_playlist_item"}
           /\ calls[j].op = "create_playlist_item"
           /\ calls[i].pl = calls[j].pl)
          => (/\ calls[i].op = "create_playlist_item"
              /\ calls[i].arg < calls[j].arg)
    /\ PtJustDone =>
          /\ AddedVideos(queue[idx - 1]) = add
          /\ Len(CallsOf(queue[idx - 1], "create_playlist_item")) = Cardinality(add)

\* C3 witness: two adds, in order, and then a remove, for one playlist.
C3_Witness ==
    /\ PtJustDone
    /\ Len(calls) >= 4
    /\ LET n == Len(calls)
       IN /\ calls[n - 2].op = "create_playlist_item" /\ calls[n - 2].arg = 1
          /\ calls[n - 1].op = "create_playlist_item" /\ calls[n - 1].arg = 2
          /\ calls[n].op = "remove_playlist_item"
          /\ calls[n - 2].pl = calls[n].pl
          /\ calls[n - 1].pl = calls[n].pl

\* push_tracks stamped playlist p in the running command
Stamped(p) == PlaylistManagerGet(playlists, p).uploaded = clock

\* C4 as claimed: every playlist push tracks has completed, the ones found
\* in sync too, has its uploaded timestamp stamped.
C4_Original == \A p \in PtDone : Stamped(p)

\* C4 amended: a playlist push tracks has completed has its uploaded
\* timestamp stamped exactly when it was found out of sync (an add-item or
\* remove-item call was made for it); one found in sync is not stamped.
C4_StampedIffOutOfSync ==
    \A p \in PtDone :
        Stamped(p) <=> (AddedVideos(p) # {} \/ RemovedVideos(p) # {})

\* C4 witness: one completed playlist was stamped, another was not.
C4_Witness ==
    \E p, q \in PtDone :
        /\ Stamped(p)
        /\ ~Stamped(q)
        /\ FetchOk(q)

\* C5: local wins. A playlist push tracks has completed with no call
\* failing holds remotely exactly the offline video ids; and push tracks run
\* right after a push tracks run in which no call failed makes no add-item
\* and no remove-item call, provided none of its own fetches fails.
C5_LocalWins ==
    /\ \A p \in PtDone : NoCallFailed(p) => RemoteVideosOf(p) = OfflineOf(p)
    /\ (cmd = "push_tracks" /\ prev = [cmd |-> "push_tracks", ok |-> TRUE])
          => \A i \in DOMAIN calls : calls[i].op = "get_playlist_items"

\* C5 witness: a second push tracks run, after a first that changed the
\* platform, has completed a playlist with a non-empty offline set.
C5_Witness ==
    /\ cmd = "push_tracks"
    /\ prev = [cmd |-> "push_tracks", ok |-> TRUE]
    /\ pc = "idle"
    /\ \E p \in PtDone :
          /\ FetchOk(p)
          /\ OfflineOf(p) # {}
          /\ PlaylistManagerGet(playlists, p).uploaded = clock - 1

\* ------------------------------------------------------------ claims: add
AddCommands ==
    {"add_user", "add_chart", "add_country", "add_tag", "add_artist"}

\* a step that runs an add command whose body ran
AddRan ==
    /\ pc = "idle"
    /\ clock' = clock + 1
    /\ cmd' \in AddCommands
    /\ exit_code' = 0

\* C6 as claimed: an add command reports "Updated" exactly when a record
\* with the same identity was in the registry before the call, and "Added"
\* exactly when none was.
C6_Original ==
    [][AddRan =>
          /\ output'[1].text \in {"Updated", "Added"}
          /\ output'[1].text = "Updated"
                <=> PlaylistIndex(playlists, output'[1].arg) # 0]_vars

\* C7: an add command prints "Updated playlist: <id>" exactly when the
\* record PlaylistManager.set returned has synced set, "Added playlist:
\* <id>" otherwise, <id> being the id of that record, which carries the
\* stripped title given.
C7_UpdatedIffSynced ==
    (pc = "idle" /\ cmd \in AddCommands /\ exit_code = 0) =>
        /\ Len(output) = 1
        /\ PlaylistIndex(playlists, output[1].arg) # 0
        /\ LET playlist == PlaylistManagerGet(playlists, output[1].arg)
           IN /\ playlist.title = strip(argv[Len(argv)])
              /\ playlist.limit = argv[Len(argv) - 1]
              /\ playlist.modified = clock
              /\ output[1].text =
                    IF playlist.synced # NULL THEN "Updated" ELSE "Added"

\* C7 witness: add tag on a registry whose rock playlist was synced before
\* prints "Updated".
C7_Witness ==
    /\ pc = "idle"
    /\ cmd = "add_tag"
    /\ exit_code = 0
    /\ output[1].text = "Updated"
    /\ PlaylistManagerGet(playlists, output[1].arg).synced # NULL

\* ---------------------------------------------------------- claims: setup
\* the user was asked the question and gave the answer
Answered(out, question, answer) ==
    \E i \in DOMAIN out : out[i].text = question /\ out[i].arg = answer

\* C8: setup asks for confirmation exactly when the provider is configured
\* already; when the user declines the command aborts, with neither
\* YouService.authorize nor ConfigManager.set called and the configuration
\* as it was; a configuration is overwritten only after a yes.
C8_SetupAsksBeforeOverwrite ==
    [][(pc = "idle" /\ clock' = clock + 1
        /\ cmd' \in {"lastfm_setup", "youtube_setup"})
       => LET p == IF cmd' = "lastfm_setup"
                   THEN Provider.lastfm ELSE Provider.youtube
              question == "Overwrite existing configuration?"
          IN /\ asked' <=> p \in DOMAIN config
             /\ asked' <=> (\E i \in DOMAIN output' : output'[i].text = question)
             /\ Answered(output', question, "n")
                   => /\ calls' = <<>>
                      /\ config' = config
                      /\ exit_code' # 0
             /\ (p \in DOMAIN config /\ config' # config)
                   => Answered(output', question, "y")
             /\ \A x \in DOMAIN config \ {p} :
                   x \in DOMAIN config' /\ config'[x] = config[x]]_vars

\* C8 witness: youtube is configured, setup was run again and the user
\* declined.
C8_Witness ==
    /\ pc = "idle"
    /\ cmd = "youtube_setup"
    /\ prev.cmd = "youtube_setup"
    /\ Provider.youtube \in DOMAIN config
    /\ asked
    /\ Answered(output, "Overwrite existing configuration?", "n")
    /\ calls = <<>>
    /\ exit_code = 1

\* --------------------------------------------------------- claims: remove
RemoveRan ==
    /\ pc = "idle"
    /\ clock' = clock + 1
    /\ cmd' = "remove"

\* the ids PlaylistManager.remove was called with, in call order
RemoveCalled(log) == [i \in DOMAIN log |-> log[i].arg]

\* C9 as claimed: declined, remove is called for no id, no playlist is
\* deleted and the exit code is not 0; accepted, remove is called once per
\* given id in the order given.
C9_Original ==
    [][RemoveRan =>
          /\ asked'
          /\ Answered(output', "Do you want to continue?", "n")
                => /\ calls' = <<>>
                   /\ playlists' = playlists
                   /\ exit_code' # 0
          /\ Answered(output', "Do you want to continue?", "y")
                => RemoveCalled(calls') = argv']_vars

\* C9 amended: declined, as claimed; accepted, remove is called for the
\* given ids in the order given, once per id, up to and including the first
\* id that is not in the registry, where NotFound ends the command with a
\* non-zero exit code; with every id found it is called once per given id
\* and the command exits with 0. The playlists left are those not removed.
C9_RemoveUntilNotFound ==
    [][RemoveRan =>
          /\ asked'
          /\ Answered(output', "Do you want to continue?", "n")
                => /\ calls' = <<>>
                   /\ playlists' = playlists
                   /\ exit_code' # 0
          /\ Answered(output', "Do you want to continue?", "y")
                => LET n == Len(calls')
                       there(i) ==
                           /\ \E j \in DOMAIN playlists :
                                 playlists[j].id = argv'[i]
                           /\ \A j \in 1..(i - 1) : argv'[j] # argv'[i]
                   IN /\ 1 <= n /\ n <= Len(argv')
                      /\ RemoveCalled(calls') = SubSeq(argv', 1, n)
                      /\ \A i \in 1..n : calls'[i].ok <=> there(i)
                      /\ \A i \in 1..(n - 1) : calls'[i].ok
                      /\ n < Len(argv') => ~calls'[n].ok
                      /\ exit_code' = 0 <=> calls'[n].ok
                      /\ playlists' = SelectSeq(playlists, LAMBDA q :
                            \A i \in 1..n : ~(calls'[i].ok /\ argv'[i] = q.id))]_vars

\* C9 witness: the user accepted and two playlists were removed, in the
\* order given.
C9_Witness ==
    /\ pc = "idle"
    /\ cmd = "remove"
    /\ Answered(output, "Do you want to continue?", "y")
    /\ Len(argv) = 2
    /\ RemoveCalled(calls) = argv
    /\ calls[1].ok /\ calls[2].ok
    /\ playlists = <<>>
    /\ exit_code = 0

\* ---------------------------------------------------- claims: batch loops
\* the first remote call a loop makes for a playlist
FirstCall(command) ==
    CASE command = "sync" -> "get_tracks"
      [] command = "push_playlists" -> "create_playlist"
      [] OTHER -> "get_playlist_items"

Processed(p) ==
    \E i \in DOMAIN calls : calls[i].op = FirstCall(cmd) /\ calls[i].pl = p

\* C10 as claimed: when a remote call fails while sync_playlists,
\* push_playlists or push_tracks processes a playlist, every later playlist
\* of the batch is still processed.
C10_Original ==
    (pc = "idle"
     /\ cmd \in {"sync", "push_playlists", "push_tracks", "push_all"})
    => \A i \in DOMAIN calls :
          ~calls[i].ok => \A j \in DOMAIN queue : Processed(queue[j])


\* ------------------------------------------------- claims: batches persist
\* the result of call c is in the registry
Saved(c) ==
    CASE c.op = "create_playlist" ->
            c.ok => /\ PlaylistIndex(playlists, c.pl) # 0
                    /\ PlaylistManagerGet(playlists, c.pl).youtube_id = c.arg
      [] c.op = "get_tracks" ->
            c.ok => /\ PlaylistIndex(playlists, c.pl) # 0
                    /\ PlaylistManagerGet(playlists, c.pl).tracks = c.arg
                    /\ PlaylistManagerGet(playlists, c.pl).modified = clock
      [] OTHER -> TRUE

\* C11: in a batch the result for a playlist is saved with the playlist's
\* own processing: at every point of push playlists, push tracks and sync,
\* the point where the batch stops included, every playlist whose create
\* call succeeded has the youtube_id the call returned, every playlist whose
\* tracks were fetched has them as its tracks list, and every playlist push
\* tracks completed out of sync has its uploaded stamp.
C11_SavedBeforeNext ==
    /\ \A i \in DOMAIN calls : Saved(calls[i])
    /\ \A p \in PtDone :
          (AddedVideos(p) # {} \/ RemovedVideos(p) # {}) => Stamped(p)

\* C11 witness: sync stopped at its second playlist; the first keeps the
\* tracks that were fetched for it.
C11_Witness ==
    /\ cmd = "sync"
    /\ pc = "idle"
    /\ exit_code = 1
    /\ Len(calls) = 2
    /\ calls[1].ok
    /\ ~calls[2].ok
    /\ calls[1].arg # {}
    /\ PlaylistManagerGet(playlists, calls[1].pl).tracks = calls[1].arg
    /\ PlaylistManagerGet(playlists, calls[2].pl).tracks = {}


\* -------------------------------------------------- claims: push playlists
\* this step made a create_playlist call
CreateCalled ==
    /\ Len(calls') = Len(calls) + 1
    /\ calls'[Len(calls')].op = "create_playlist"

\* C12: a playlist's youtube_id changes only in the step of a successful
\* create call for that playlist, from null to the id the call returned; a
\* create call is made only for a playlist whose youtube_id is null; and
\* push playlists with no such playlist makes no call at all.
C12_CreateOnlyNew ==
    [][/\ \A i \in DOMAIN playlists :
             (i \in DOMAIN playlists'
              /\ playlists'[i].youtube_id # playlists[i].youtube_id)
             => /\ CreateCalled
                /\ calls'[Len(calls')].ok
                /\ calls'[Len(calls')].pl = playlists[i].id
                /\ calls'[Len(calls')].arg = playlists'[i].youtube_id
                /\ playlists[i].youtube_id = NULL
                /\ playlists'[i].id = playlists[i].id
       /\ CreateCalled =>
             /\ PlaylistIndex(playlists, calls'[Len(calls')].pl) # 0
             /\ PlaylistManagerGet(playlists,
                                   calls'[Len(calls')].pl).youtube_id = NULL
       /\ (pc = "pp_start" /\ \A i \in DOMAIN playlists :
                                  playlists[i].youtube_id # NULL)
             => /\ pc' # "pp_create"
                /\ calls' = calls
                /\ remote' = remote
                /\ playlists' = playlists]_vars

\* C12 witness: push playlists run again after a run that created every
\* playlist remotely: there are no new playlists and no call is made.
C12_Witness ==
    /\ cmd = "push_playlists"
    /\ prev = [cmd |-> "push_playlists", ok |-> TRUE]
    /\ pc = "idle"
    /\ calls = <<>>
    /\ output[Len(output)].text = "There are no new playlists"
    /\ \E i \in DOMAIN playlists :
          /\ playlists[i].youtube_id # NULL
          /\ playlists[i].modified = clock - 1


\* ------------------------------------------------- claims: add, bad input
\* the arguments given to the add command of this step are malformed: a
\* country code, tag, artist or user that is unknown, or a limit outside
\* 50..1000
MalformedGiven ==
    LET n == Len(argv')
        limit == argv'[n - 1]
    IN \/ limit < 50
       \/ limit > 1000
       \/ cmd' = "add_user" /\ argv'[1] = "nosuchuser"
       \/ cmd' = "add_country" /\ argv'[1] = "xx"
       \/ cmd' = "add_tag" /\ argv'[1] = "nosuchtag"
       \/ cmd' = "add_artist" /\ argv'[1] = "nosuchartist"

\* C13: an add command given a malformed argument fails before any
\* mutation: history, playlists, tracks and config are what they were, no
\* "Added" or "Updated" is reported and the exit code is not 0.
C13_MalformedNoMutation ==
    [][(pc = "idle" /\ clock' = clock + 1 /\ cmd' \in AddCommands
        /\ MalformedGiven)
       => /\ history' = history
          /\ playlists' = playlists
          /\ tracks' = tracks
          /\ config' = config
          /\ exit_code' # 0
          /\ \A i \in DOMAIN output' :
                output'[i].text \notin {"Added", "Updated"}]_vars

\* C13 witness: add country with an unknown code, after an add that went
\* through, left the registry as it was.
C13_Witness ==
    /\ pc = "idle"
    /\ cmd = "add_country"
    /\ argv[1] = "xx"
    /\ argv[2] = MinLimit
    /\ prev.cmd = "add_chart"
    /\ exit_code = 2
    /\ "limit" \in DOMAIN history
    /\ \A i \in DOMAIN playlists : playlists[i].type # "country"


\* ------------------------------------------------- claims: add, idempotent
\* the records of pls with identity id
WithId(pls, id) == {i \in DOMAIN pls : pls[i].id = id}

\* C14: an add command run for an identity (type, provider, arguments,
\* limit) that has a record already leaves exactly one record of that
\* identity, at its place and with its id, whose title is the title now
\* given; the number of records does not grow and no other record changes.
\* Run for an identity that has none, it adds one record.
C14_SameIdentityOneRecord ==
    [][AddRan =>
          LET id == output'[1].arg
              n == Len(argv')
          IN /\ Cardinality(WithId(playlists', id)) = 1
             /\ WithId(playlists, id) # {} =>
                   /\ Len(playlists') = Len(playlists)
                   /\ WithId(playlists', id) = WithId(playlists, id)
                   /\ \A i \in DOMAIN playlists :
                         IF playlists[i].id = id
                         THEN playlists'[i] =
                                 [playlists[i] EXCEPT
                                     !.title = strip(argv'[n]),
                                     !.modified = clock']
                         ELSE playlists'[i] = playlists[i]
             /\ WithId(playlists, id) = {} =>
                   /\ Len(playlists') = Len(playlists) + 1
                   /\ SubSeq(playlists', 1, Len(playlists)) = playlists]_vars

\* C14 witness: add tag for the rock playlist that the registry held
\* already (it was synced, which no add does): still two records, the rock
\* playlist at its place with the title now given.
C14_Witness ==
    /\ pc = "idle"
    /\ cmd = "add_tag"
    /\ exit_code = 0
    /\ Len(playlists) = MaxPlaylists
    /\ playlists[2].id = output[1].arg
    /\ playlists[2].synced # NULL
    /\ playlists[2].title = <<"Y">>
    /\ playlists[2].modified = clock


\* ----------------------------------------------------------- claims: sync
\* this step fetched the tracks of a playlist
Fetched ==
    /\ pc = "sy_fetch"
    /\ Len(calls') = Len(calls) + 1
    /\ calls'[Len(calls')].op = "get_tracks"
    /\ calls'[Len(calls')].ok

\* C15: re-import is idempotent. A sync step gives the fetched entries ids
\* that are the keys of their records, makes records only for ids that have
\* none, leaves the id and youtube_id of every record as they were and never
\* loses a duration; when the ids it gets are the playlist's tracks already
\* (the same entries as at the sync before) it makes no record and the
\* playlist's tracks are what they were.
C15_ReimportIdempotent ==
    [][Fetched =>
          LET ids == calls'[Len(calls')].arg
              p == calls'[Len(calls')].pl
              before == PlaylistManagerGet(playlists, p)
              after == PlaylistManagerGet(playlists', p)
          IN /\ DOMAIN tracks' = DOMAIN tracks \cup ids
             /\ \A t \in DOMAIN tracks' : tracks'[t].id = t
             /\ \A t \in DOMAIN tracks :
                   /\ tracks'[t].youtube_id = tracks[t].youtube_id
                   /\ tracks[t].duration # NULL => tracks'[t].duration # NULL
                   /\ t \notin ids => tracks'[t] = tracks[t]
             /\ after.tracks = ids
             /\ after.id = before.id
             /\ (before.tracks = ids /\ ids \subseteq DOMAIN tracks)
                   => /\ DOMAIN tracks' = DOMAIN tracks
                      /\ after.tracks = before.tracks]_vars

\* C15 witness: the second sync of a run, on a registry that had no track
\* at first: one playlist keeps the tracks of the first sync, the other was
\* synced again to the same one track, which has a duration now.
C15_Witness ==
    /\ cmd = "sync"
    /\ prev = [cmd |-> "sync", ok |-> TRUE]
    /\ pc = "idle"
    /\ exit_code = 0
    /\ Len(playlists) = 2
    /\ playlists[2].modified = clock - 1
    /\ playlists[1].modified = clock
    /\ playlists[1].tracks = playlists[2].tracks
    /\ Cardinality(DOMAIN tracks) = 1
    /\ playlists[1].tracks = DOMAIN tracks
    /\ \A t \in DOMAIN tracks : tracks[t].duration # NULL


\* C16: in every state, each id in a playlist's tracks list is the id of a
\* record of the Track collection.
C16_TracksExist ==
    \A i \in DOMAIN playlists :
        \A t \in playlists[i].tracks :
            t \in DOMAIN tracks /\ tracks[t].id = t

\* C16 witness: sync gave a playlist a track the registry did not have; its
\* record is there.
C16_Witness ==
    /\ cmd = "sync"
    /\ pc = "idle"
    /\ exit_code = 0
    /\ \E i \in DOMAIN playlists :
          /\ TrackIdOf(1) \in playlists[i].tracks
          /\ playlists[i].modified = clock
    /\ TrackIdOf(1) \in DOMAIN tracks
    /\ tracks[TrackIdOf(1)].youtube_id = NULL


\* the playlists sync is to process: those of the last.fm provider, all of
\* them when no id is given, else those whose id is given
SyncExpected ==
    {playlists[i].id : i \in
        {j \in DOMAIN playlists :
            /\ playlists[j].provider = "lastfm"
            /\ (argv = <<>> \/ \E a \in DOMAIN argv : argv[a] = playlists[j].id)}}

\* C17: sync fetches tracks for the expected playlists only and for none
\* twice; it updates no playlist it did not fetch; and when it returns
\* normally it has fetched every expected playlist, once.
C17_SyncExactlyChosen ==
    cmd = "sync" =>
        /\ \A i \in DOMAIN calls :
              /\ calls[i].op = "get_tracks"
              /\ calls[i].pl \in SyncExpected
              /\ \A j \in DOMAIN calls : calls[j].pl = calls[i].pl => j = i
        /\ \A i \in DOMAIN playlists :
              playlists[i].modified = clock
                 <=> \E j \in DOMAIN calls :
                        calls[j].pl = playlists[i].id /\ calls[j].ok
        /\ (pc = "idle" /\ exit_code = 0)
              => {calls[i].pl : i \in DOMAIN calls} = SyncExpected

\* C17 witness: sync with the id of the second of two last.fm playlists
\* fetched and updated that one alone.
C17_Witness ==
    /\ cmd = "sync"
    /\ pc = "idle"
    /\ exit_code = 0
    /\ Len(argv) = 1
    /\ Len(playlists) = 3
    /\ playlists[2].id = argv[1]
    /\ Len(calls) = 1
    /\ calls[1].pl = argv[1]
    /\ playlists[2].modified = clock
    /\ playlists[1].modified < clock
    /\ playlists[3].modified < clock


\* ------------------------------------------------- claims: remove and get
\* C18: a remove call for an id that has no record fails with NotFound and
\* the command ends with a non-zero exit code; the record of an id that was
\* removed is gone; and a get on an id (list <id>) fails with NotFound
\* exactly when the id has no record, so that it fails for every id the
\* remove command before it removed.
C18_RemovedIsNotFound ==
    [][/\ RemoveRan =>
             \A i \in DOMAIN calls' :
                /\ calls'[i].ok => PlaylistIndex(playlists', calls'[i].arg) = 0
                /\ (PlaylistIndex(playlists, calls'[i].arg) = 0) =>
                      /\ ~calls'[i].ok
                      /\ i = Len(calls')
                      /\ output'[Len(output')] = Msg("NotFound", calls'[i].arg)
                      /\ exit_code' # 0
       /\ (pc = "idle" /\ clock' = clock + 1 /\ cmd' = "list" /\ argv' # <<>>)
             => LET id == argv'[1]
                    failed == /\ output' = <<Msg("NotFound", id)>>
                              /\ exit_code' # 0
                IN /\ failed <=> PlaylistIndex(playlists, id) = 0
                   /\ (cmd = "remove"
                       /\ \E i \in DOMAIN calls :
                             calls[i].arg = id /\ calls[i].ok)
                         => failed]_vars

\* C18 witness: of two playlists the first was removed, and list with its
\* id failed with NotFound.
C18_Witness ==
    /\ pc = "idle"
    /\ cmd = "list"
    /\ prev.cmd = "remove"
    /\ argv = <<InitPlaylist(1, NULL, {}, NULL).id>>
    /\ Len(playlists) = 1
    /\ playlists[1].id = InitPlaylist(2, NULL, {}, NULL).id
    /\ output = <<Msg("NotFound", argv[1])>>
    /\ exit_code = 1


\* ---------------------------------------------- claims: push tracks removes
\* the items push_tracks asked the platform to remove from playlist p
RemovedItems(p) ==
    {c.arg : c \in Range(CallsOf(p, "remove_playlist_item"))}

\* C19: for a playlist whose items were fetched, push tracks makes one
\* remove-item call for each fetched item whose video id is not in offline,
\* the items that share a video id each getting their own, and none for an
\* item whose video id is in offline; when no call failed, no such item is
\* left on the platform.
C19_RemovesEveryMatchingItem ==
    /\ \A i \in DOMAIN calls :
          calls[i].op = "remove_playlist_item"
             => calls[i].arg.video_id \notin OfflineOf(calls[i].pl)
    /\ (PtJustDone /\ FetchOk(queue[idx - 1])) =>
          LET p == queue[idx - 1]
              unwanted == {i \in items : i.video_id \notin OfflineOf(p)}
              y == PlaylistManagerGet(playlists, p).youtube_id
          IN /\ RemovedItems(p) = unwanted
             /\ Len(CallsOf(p, "remove_playlist_item")) = Cardinality(unwanted)
             /\ NoCallFailed(p) => remote[y] \cap unwanted = {}

\* C19 witness: the remote playlist held two items of the same unwanted
\* video; both were removed.
C19_Witness ==
    /\ PtJustDone
    /\ FetchOk(queue[idx - 1])
    /\ NoCallFailed(queue[idx - 1])
    /\ Cardinality(items) = 2
    /\ \A i \in items : i.video_id = 3
    /\ RemovedItems(queue[idx - 1]) = items
    /\ RemoteVideosOf(queue[idx - 1]) = OfflineOf(queue[idx - 1])


\* ------------------------------------------------------- claims: push --all
\* push --all: the create calls come before every other call; push tracks
\* starts with a create call made for each playlist that had no youtube_id;
\* and at the end every playlist created in the run was fetched after its
\* creation.
PushAllInOrder ==
    cmd = "push_all" =>
        /\ \A i, j \in DOMAIN calls :
              (i < j /\ calls[j].op = "create_playlist")
                 => calls[i].op = "create_playlist"
        /\ pc \in {"pt_start", "pt_fetch", "pt_add", "pt_remove"} =>
              \A i \in DOMAIN playlists :
                 playlists[i].youtube_id = NULL
                    => \E j \in DOMAIN calls :
                          /\ calls[j].op = "create_playlist"
                          /\ calls[j].pl = playlists[i].id
                          /\ ~calls[j].ok
        /\ pc = "idle" =>
              \A i \in DOMAIN calls :
                 (calls[i].op = "create_playlist" /\ calls[i].ok)
                    => \E j \in DOMAIN calls :
                          /\ i < j
                          /\ calls[j].op = "get_playlist_items"
                          /\ calls[j].pl = calls[i].pl

\* C20: push --all runs push playlists to its end and then push tracks, a
\* playlist created in the run being reconciled in it; push with neither a
\* subcommand nor --all makes no call and leaves the registry and the
\* platform as they are.
C20_AllThenTracks ==
    [][/\ PushAllInOrder'
       /\ (pc = "idle" /\ clock' = clock + 1 /\ cmd' = "push_help")
             => /\ calls' = <<>>
                /\ pc' = "idle"
                /\ config' = config
                /\ history' = history
                /\ playlists' = playlists
                /\ tracks' = tracks
                /\ remote' = remote]_vars

\* C20 witness: push --all created a playlist that has tracks with videos,
\* fetched its items and added the videos, all in one run.
C20_Witness ==
    /\ cmd = "push_all"
    /\ pc = "idle"
    /\ \E i, j, n \in DOMAIN calls :
          /\ i < j /\ j < n
          /\ calls[i].op = "create_playlist" /\ calls[i].ok
          /\ calls[j].op = "get_playlist_items" /\ calls[j].ok
          /\ calls[n].op = "create_playlist_item" /\ calls[n].ok
          /\ calls[j].pl = calls[i].pl
          /\ calls[n].pl = calls[i].pl
          /\ PlaylistManagerGet(playlists, calls[i].pl).youtube_id = calls[i].arg
          /\ PlaylistManagerGet(playlists, calls[i].pl).uploaded = clock


\* ------------------------------------------------ claims: push tracks frame
\* C21: push tracks reads the local state and writes one thing. In every
\* step of push tracks the Track records, the configuration and the history
\* are unchanged, and so is every playlist record but for uploaded and
\* modified; a record that changes is that of the playlist being processed,
\* which has a youtube_id, and it gets the timestamp of the run in both
\* fields; a playlist without a youtube_id is not touched.
C21_PushTracksWritesUploadedOnly ==
    [][(pc \in {"pt_start", "pt_fetch", "pt_add", "pt_remove"}) =>
          /\ tracks' = tracks
          /\ config' = config
          /\ history' = history
          /\ Len(playlists') = Len(playlists)
          /\ \A i \in DOMAIN playlists :
                /\ [playlists'[i] EXCEPT !.uploaded = NULL, !.modified = NULL]
                      = [playlists[i] EXCEPT !.uploaded = NULL, !.modified = NULL]
                /\ playlists[i].youtube_id = NULL
                      => playlists'[i] = playlists[i]
                /\ playlists'[i] # playlists[i] =>
                      /\ pc \in {"pt_add", "pt_remove"}
                      /\ playlists[i].id = queue[idx]
                      /\ playlists'[i].uploaded = clock
                      /\ playlists'[i].modified = clock]_vars

\* C21 witness: push tracks stamped the playlist that has a youtube_id and
\* left alone the one that has none.
C21_Witness ==
    /\ cmd = "push_tracks"
    /\ pc = "idle"
    /\ Len(playlists) = 2
    /\ \E i, j \in DOMAIN playlists :
          /\ playlists[i].youtube_id # NULL
          /\ playlists[i].uploaded = clock
          /\ playlists[i].tracks # {}
          /\ playlists[j].youtube_id = NULL
          /\ playlists[j].tracks # {}
          /\ playlists[j].uploaded = NULL
          /\ playlists[j].modified = 1


====
